---- MODULE Spec2Model ----
(***************************************************************************)
(* Model of the web WS281x emulator: the WS2811 device (frame buffer and   *)
(* render pacing), the per-connection Client with its writePump, and the   *)
(* Hub that fans rendered frames out to the clients' send channels.        *)
(*                                                                         *)
(* Go slices and channel numbers are 0-based; TLA+ sequences are 1-based,  *)
(* so channel c of the device is leds[c + 1].                              *)
(***************************************************************************)
EXTENDS Integers, Sequences, FiniteSets, TLC

\* ------------------------------------------------------------------ bounds
\* Capacity of a client's send channel: make(chan []byte, 256), scaled down.
SendCap == 2
\* Largest LedCount of a channel and largest number of values in one write.
MaxLeds == 2
\* The clock stops advancing here unless the producer still sleeps.
MaxTime == 3
\* Clock ticks per second: time.Second is 10^9 ns, the model's clock is coarser.
Second == 1000
\* Rendered frames per run: enough to overflow a stalled client's channel.
MaxRenders == SendCap + 1

\* ------------------------------------------------------- program constants
RpiPwmChannels == 2
TargetFreq == 800000

\* The viewer connections that may ever be opened.
Pumps == {1, 2}
\* uint32 LED colours, two of them: the zero value and one other.
Vals == {0, 1}
\* Option.Frequency values that give short frame times on the model's clock.
Freqs == {12025, 24050}
\* Option.Channels: one or two channels, 1 .. MaxLeds LEDs each.
ChannelOptions == { [LedCount |-> n] : n \in 1 .. MaxLeds }
ChannelLists ==
    { <<c>> : c \in ChannelOptions } \cup { <<[LedCount |-> MaxLeds], [LedCount |-> 1]>> }
Options == [Frequency : Freqs, Channels : ChannelLists]
\* The slices a producer passes to SetLedsSync: 0 .. MaxLeds + 1 copies of a value.
LedSlices == { [i \in 1 .. k |-> v] : k \in 0 .. MaxLeds + 1, v \in Vals }

\* pongWait and pingPeriod, in seconds.
pongWait == 60
pingPeriod == (pongWait * 9) \div 10
\* The ticker periods after which pongWait has passed since the pump started.
MissedPings == pongWait \div pingPeriod + 1

\* The zero value of time.Time (year 1), long before the clock's origin.
ZeroTime == 0 - 1000 * Second

Nil == "nil"
ErrAlreadyInitialized == "device already initialized"
ErrTooManyLeds == "Error: Too many LEDs"

VARIABLES
    \* WS2811
    options,        \* ws2811.options, deep-copied by MakeWS2811
    initialized,    \* ws2811.initialized
    leds,           \* ws2811.leds
    lastRender,     \* ws2811.lastRender
    \* the producer's position in the API call it is executing
    pc,             \* "idle", "renderSleep", "renderSend", "renderSent", "setSleep"
    wakeAt,         \* nextRender of the Wait in progress
    args,           \* (channel, leds) of the SetLedsSync in progress
    json,           \* the marshalled payload Render is about to send
    lastOp,         \* the API call that returned last
    lastErr,        \* the error it returned
    now,            \* the clock
    \* history of the producer's calls
    initCalls,      \* Init calls since construction or the last Fini (0, 1, 2 = more)
    renders,        \* number of frames handed to the hub
    handoffAt,      \* clock value of the last hand-off to hub.broadcast
    \* Hub
    clients,        \* hub.clients
    hubMsg,         \* the message of the broadcast being fanned out
    hubTodo,        \* clients the running broadcast loop has not visited yet
    dropped,        \* history: the pumps a broadcast found with a full queue
    hubDown,        \* the hub has shut down: its loop handles no more events
    \* Client, per pump
    pst,            \* position of ServeWs / writePump
    send,           \* c.send: the buffered messages
    closed,         \* c.send has been closed
    conn,           \* c.conn: "none", "open", "closed"
    message,        \* the message writePump received
    cur,            \* what was written to the NextWriter so far
    n,              \* remaining iterations of sendMessage's drain loop
    wire,           \* the websocket message sendMessage has just flushed to the transport
    closeSent,      \* a CloseMessage write was attempted
    \* history of the websocket message a pump is writing
    backlog,        \* the messages in c.send when writePump received the first one
    counted,        \* the messages in c.send when sendMessage took n := len(c.send)
    \* history of a pump's queue and connection
    unsent,         \* the messages the hub enqueued that no w.Write has been called with
    ticks,          \* ticker periods the pump pinged through (up to MissedPings)
    closes          \* close(c.send) calls; a second one panics

devVars == <<options, initialized, leds, lastRender>>
prodVars == <<pc, wakeAt, args, json, lastOp, lastErr>>
histVars == <<initCalls, renders, handoffAt>>
hubVars == <<clients, hubMsg, hubTodo, dropped, hubDown>>
logVars == <<unsent, ticks, closes>>
pumpVars == <<pst, send, closed, conn, message, cur, n, wire, closeSent, backlog, counted,
              logVars>>
vars == <<devVars, prodVars, histVars, hubVars, pumpVars, now>>

\* A queue without its oldest message.
Rest(q) == IF q = <<>> THEN <<>> ELSE Tail(q)

NoArgs == [channel |-> 0, leds |-> <<>>]
\* The zero value of a []byte message: what a receive on a closed, empty channel yields.
ZeroMsg == [id |-> 0, option |-> [LedCount |-> 0], leds |-> <<>>]

\* ------------------------------------------------------------------ WS2811
\* MakeWS2811: a device that is not initialized, with a copy of the options.
MakeWS2811(opt) ==
    /\ initialized = FALSE
    /\ options = opt
    /\ leds = <<>>
    /\ lastRender = ZeroTime

\* Init's result on a device: the error it returns and the frame buffer it leaves.
\* The method never sets ws2811.initialized.
InitResult(isInit, opt, buf) ==
    IF isInit
    THEN [err |-> ErrAlreadyInitialized, leds |-> buf]
    ELSE [err |-> Nil,
          leds |-> [i \in 1 .. RpiPwmChannels |->
                      IF i <= Len(opt.Channels)
                      THEN [j \in 1 .. opt.Channels[i].LedCount |-> 0]
                      ELSE <<>>]]

Saturate(k) == IF k >= 2 THEN 2 ELSE k + 1

\* ws2811.Init(): one call of the producer, start to return.
WS2811Init ==
    /\ pc = "idle"
    /\ Len(options.Channels) <= RpiPwmChannels      \* else leds[i] is out of range
    /\ LET r == InitResult(initialized, options, leds)
       IN  /\ leds' = r.leds
           /\ lastErr' = r.err
    /\ lastOp' = "Init"
    /\ initCalls' = Saturate(initCalls)
    /\ UNCHANGED <<options, initialized, lastRender, pc, wakeAt, args, json,
                   renders, handoffAt, hubVars, pumpVars, now>>

\* ws2811.Fini()
Fini ==
    /\ pc = "idle"
    /\ initialized' = FALSE
    /\ lastOp' = "Fini"
    /\ lastErr' = Nil
    /\ initCalls' = 0
    /\ UNCHANGED <<options, leds, lastRender, pc, wakeAt, args, json,
                   renders, handoffAt, hubVars, pumpVars, now>>

\* ws2811.Leds(channel)
Leds(channel) == leds[channel + 1]

\* The frame time Wait computes, in clock ticks:
\* time.Duration((8*3*LedCount + 0.05) / Frequency * time.Second), truncated.
WaitTime(opt) ==
    ((100 * 8 * 3 * opt.Channels[1].LedCount + 5) * Second) \div (100 * opt.Frequency)

\* Wait without the frame time: it sleeps until lastRender only.
NextRenderNoFrameTime == lastRender

\* nextRender of Wait
NextRender == lastRender + WaitTime(options)

\* SetLedsSync that copies what fits before it checks the length.
SetLedsCopyFirst(buf, channel, values) ==
    LET copied == [buf EXCEPT ![channel + 1] =
                     [i \in 1 .. Len(@) |-> IF i <= Len(values) THEN values[i] ELSE @[i]]]
    IN  IF Len(values) > Len(buf[channel + 1])
        THEN [err |-> ErrTooManyLeds, leds |-> copied]
        ELSE [err |-> Nil, leds |-> copied]

\* SetLedsSync that zeroes the slots after the values it was given.
SetLedsZeroPad(buf, channel, values) ==
    IF Len(values) > Len(buf[channel + 1])
    THEN [err |-> ErrTooManyLeds, leds |-> buf]
    ELSE [err |-> Nil,
          leds |-> [buf EXCEPT ![channel + 1] =
                      [i \in 1 .. Len(@) |-> IF i <= Len(values) THEN values[i] ELSE 0]]]

\* SetLedsSync that keeps the slice it is given as the channel's buffer
\* (ws2811.leds[channel] = leds) instead of copying its values.
SetLedsReplace(buf, channel, values) ==
    IF Len(values) > Len(buf[channel + 1])
    THEN [err |-> ErrTooManyLeds, leds |-> buf]
    ELSE [err |-> Nil, leds |-> [buf EXCEPT ![channel + 1] = values]]

\* The part of SetLedsSync after Wait: the error and the frame buffer it leaves.
SetLeds(buf, channel, values) ==
    IF Len(values) > Len(buf[channel + 1])
    THEN [err |-> ErrTooManyLeds, leds |-> buf]
    ELSE [err |-> Nil,
          leds |-> [buf EXCEPT ![channel + 1] =
                      [i \in 1 .. Len(@) |-> IF i <= Len(values) THEN values[i] ELSE @[i]]]]

\* SetLedsSync that writes the frame buffer first and waits afterwards.
SetLedsSyncCallWritesFirst(channel, values) ==
    /\ pc = "idle"
    /\ Len(leds) > channel
    /\ leds' = SetLeds(leds, channel, values).leds
    /\ pc' = "setSleep"
    /\ wakeAt' = NextRender
    /\ args' = [channel |-> channel, leds |-> values]
    /\ UNCHANGED <<options, initialized, lastRender, json, lastOp, lastErr, histVars,
                   hubVars, pumpVars, now>>

\* SetLedsSync is called: Wait computes nextRender and sleeps.
SetLedsSyncCall(channel, values) ==
    /\ pc = "idle"
    /\ Len(leds) > channel                  \* else ws2811.leds[channel] panics
    /\ pc' = "setSleep"
    /\ wakeAt' = NextRender
    /\ args' = [channel |-> channel, leds |-> values]
    /\ UNCHANGED <<devVars, json, lastOp, lastErr, histVars, hubVars, pumpVars, now>>

\* Wait returns; SetLedsSync checks the length, copies and returns.
SetLedsSyncReturn ==
    /\ pc = "setSleep"
    /\ now >= wakeAt
    /\ LET r == SetLeds(leds, args.channel, args.leds)
       IN  /\ leds' = r.leds
           /\ lastErr' = r.err
    /\ lastOp' = "SetLedsSync"
    /\ pc' = "idle"
    /\ args' = NoArgs
    /\ wakeAt' = ZeroTime
    /\ UNCHANGED <<options, initialized, lastRender, json, histVars,
                   hubVars, pumpVars, now>>

\* json.Marshal of Render's payload: channel 0's options and a copy of its LEDs.
Marshal(id) == [id |-> id, option |-> options.Channels[1], leds |-> Leds(0)]

\* Render is called: Wait computes nextRender and sleeps.
RenderCall ==
    /\ pc = "idle"
    /\ Len(leds) > 0                        \* else ws2811.leds[0] panics
    /\ renders < MaxRenders
    /\ pc' = "renderSleep"
    /\ wakeAt' = NextRender
    /\ UNCHANGED <<devVars, args, json, lastOp, lastErr, histVars, hubVars, pumpVars, now>>

\* Wait returns; Render marshals the payload and blocks on hub.broadcast.
RenderMarshal ==
    /\ pc = "renderSleep"
    /\ now >= wakeAt
    /\ json' = Marshal(renders + 1)
    /\ pc' = "renderSend"
    /\ wakeAt' = ZeroTime
    /\ UNCHANGED <<devVars, args, lastOp, lastErr, histVars, hubVars, pumpVars, now>>

\* After the send on hub.broadcast: lastRender = time.Now(); return err (nil).
RenderReturn ==
    /\ pc = "renderSent"
    /\ lastRender' = now
    /\ lastOp' = "Render"
    /\ lastErr' = Nil
    /\ pc' = "idle"
    /\ UNCHANGED <<options, initialized, leds, wakeAt, args, json, histVars,
                   hubVars, pumpVars, now>>

\* The clock advances. It stops at MaxTime, except while a Wait is sleeping.
Tick ==
    /\ \/ now < MaxTime
       \/ pc \in {"renderSleep", "setSleep"} /\ now < wakeAt
    /\ now' = now + 1
    /\ UNCHANGED <<devVars, prodVars, histVars, hubVars, pumpVars>>

\* --------------------------------------------------------------------- Hub
\* The hub's coordination loop handles one event at a time: it is between
\* events when no broadcast loop is running.
HubIdle == hubTodo = {} /\ ~hubDown

\* case client := <-h.register
HubRegister(p) ==
    /\ HubIdle
    /\ pst[p] = "register"
    /\ clients' = clients \cup {p}
    /\ pst' = [pst EXCEPT ![p] = "spawn"]
    /\ UNCHANGED <<devVars, prodVars, histVars, hubMsg, hubTodo, dropped, hubDown, send, closed,
                   conn, message, cur, n, wire, closeSent, backlog, counted, now,
                   logVars>>

\* Unregister that closes the pump's queue and leaves the pump in the registry.
HubUnregisterKeep(p) ==
    /\ HubIdle
    /\ pst[p] \notin {"new", "failed"}
    /\ IF p \in clients
       THEN /\ closed' = [closed EXCEPT ![p] = TRUE]
            /\ closes' = [closes EXCEPT ![p] = Saturate(@)]
       ELSE UNCHANGED <<closed, closes>>
    /\ UNCHANGED <<devVars, prodVars, histVars, hubVars, pst, send, conn,
                   message, cur, n, wire, closeSent, backlog, counted, now,
                   unsent, ticks>>

\* Unregister that does not look the pump up: it closes the queue of whatever
\* pump it is given.
HubUnregisterNoCheck(p) ==
    /\ HubIdle
    /\ pst[p] \notin {"new", "failed"}
    /\ clients' = clients \ {p}
    /\ closed' = [closed EXCEPT ![p] = TRUE]
    /\ closes' = [closes EXCEPT ![p] = Saturate(@)]
    /\ UNCHANGED <<devVars, prodVars, histVars, hubMsg, hubTodo, dropped, hubDown, pst, send,
                   conn, message, cur, n, wire, closeSent, backlog, counted, now,
                   unsent, ticks>>

\* Unregister(pump): removes the pump if present and closes its queue; no-op if absent.
HubUnregister(p) ==
    /\ HubIdle
    /\ pst[p] \notin {"new", "failed"}
    /\ IF p \in clients
       THEN /\ clients' = clients \ {p}
            /\ closed' = [closed EXCEPT ![p] = TRUE]
            /\ closes' = [closes EXCEPT ![p] = Saturate(@)]
       ELSE UNCHANGED <<clients, closed, closes>>
    /\ UNCHANGED <<devVars, prodVars, histVars, hubMsg, hubTodo, dropped, hubDown, pst, send,
                   conn, message, cur, n, wire, closeSent, backlog, counted, now,
                   unsent, ticks>>

\* Render with the send on hub.broadcast written twice: the same payload is
\* handed to the hub a second time before lastRender is taken.
RenderSendTwice ==
    /\ pc = "renderSend"
    /\ IF json.id > renders
       THEN /\ renders' = renders + 1
            /\ handoffAt' = now
            /\ UNCHANGED <<pc, json>>
       ELSE /\ pc' = "renderSent"
            /\ json' = ZeroMsg
            /\ UNCHANGED <<renders, handoffAt>>
    /\ UNCHANGED <<devVars, wakeAt, args, lastOp, lastErr, initCalls, now>>

\* Render's send on hub.broadcast completes: the frame is handed to the hub.
RenderSend ==
    /\ pc = "renderSend"
    /\ pc' = "renderSent"
    /\ renders' = renders + 1
    /\ handoffAt' = now
    /\ json' = ZeroMsg
    /\ UNCHANGED <<devVars, wakeAt, args, lastOp, lastErr, initCalls, now>>

\* case message := <-h.broadcast: the hub starts its loop over the registered pumps.
HubReceive(msg) ==
    /\ HubIdle
    /\ hubMsg' = IF clients = {} THEN ZeroMsg ELSE msg
    /\ hubTodo' = clients
    /\ UNCHANGED <<clients, dropped, hubDown, pumpVars>>

\* The rendezvous on the unbuffered hub.broadcast channel.
HubBroadcast == RenderSend /\ HubReceive(json)

\* A broadcast loop whose enqueue blocks while the pump's queue is full.
HubDeliverBlocking(p) ==
    /\ p \in hubTodo
    /\ Len(send[p]) < SendCap
    /\ hubTodo' = hubTodo \ {p}
    /\ send' = [send EXCEPT ![p] = Append(@, hubMsg)]
    /\ unsent' = [unsent EXCEPT ![p] = Append(@, hubMsg)]
    /\ hubMsg' = IF hubTodo' = {} THEN ZeroMsg ELSE hubMsg
    /\ UNCHANGED <<devVars, prodVars, histVars, clients, dropped, hubDown, pst, closed, conn,
                   message, cur, n, wire, closeSent, backlog, counted, now,
                   ticks, closes>>

\* One iteration of the broadcast loop: a non-blocking enqueue on p's queue;
\* a pump whose queue is full is unregistered and its queue closed.
HubDeliver(p) ==
    /\ p \in hubTodo
    /\ hubTodo' = hubTodo \ {p}
    /\ IF Len(send[p]) < SendCap
       THEN /\ send' = [send EXCEPT ![p] = Append(@, hubMsg)]
            /\ unsent' = [unsent EXCEPT ![p] = Append(@, hubMsg)]
            /\ UNCHANGED <<clients, closed, dropped, closes>>
       ELSE /\ closed' = [closed EXCEPT ![p] = TRUE]
            /\ clients' = clients \ {p}
            /\ dropped' = dropped \cup {p}
            /\ closes' = [closes EXCEPT ![p] = Saturate(@)]
            /\ UNCHANGED <<send, unsent>>
    /\ hubMsg' = IF hubTodo' = {} THEN ZeroMsg ELSE hubMsg
    /\ UNCHANGED <<devVars, prodVars, histVars, hubDown, pst, conn, message, cur, n, wire,
                   closeSent, backlog, counted, now,
                   ticks>>

\* Hub shutdown: the hub closes the queue of every registered pump and its
\* loop handles no further event.
HubShutdown ==
    /\ HubIdle
    /\ hubDown' = TRUE
    /\ closed' = [p \in Pumps |-> closed[p] \/ p \in clients]
    /\ closes' = [p \in Pumps |-> IF p \in clients THEN Saturate(closes[p]) ELSE closes[p]]
    /\ UNCHANGED <<devVars, prodVars, histVars, clients, hubMsg, hubTodo, dropped, pst,
                   send, conn, message, cur, n, wire, closeSent, backlog, counted, now,
                   unsent, ticks>>

\* ------------------------------------------------------------------ Client
\* ServeWs up to the send on hub.register: the upgrade fails, or the client is
\* built around the connection with an empty send channel.
ServeWs(p, upgraded) ==
    /\ pst[p] = "new"
    /\ IF upgraded
       THEN /\ pst' = [pst EXCEPT ![p] = "register"]
            /\ conn' = [conn EXCEPT ![p] = "open"]
       ELSE /\ pst' = [pst EXCEPT ![p] = "failed"]
            /\ UNCHANGED conn
    /\ UNCHANGED <<devVars, prodVars, histVars, hubVars, send, closed, message, cur,
                   n, wire, closeSent, backlog, counted, now,
                   logVars>>

\* A handler that closes the connection when it returns (defer conn.Close()).
WritePumpStartClosing(p) ==
    /\ pst[p] = "spawn"
    /\ pst' = [pst EXCEPT ![p] = "select"]
    /\ conn' = [conn EXCEPT ![p] = "closed"]
    /\ UNCHANGED <<devVars, prodVars, histVars, hubVars, send, closed, message,
                   cur, n, wire, closeSent, backlog, counted, now, logVars>>

\* go client.writePump(): the writer reaches its select.
WritePumpStart(p) ==
    /\ pst[p] = "spawn"
    /\ pst' = [pst EXCEPT ![p] = "select"]
    /\ UNCHANGED <<devVars, prodVars, histVars, hubVars, send, closed, conn, message,
                   cur, n, wire, closeSent, backlog, counted, now,
                   logVars>>

\* A writePump that does not test ok: on the closed, empty channel it takes the
\* zero value for a message and goes on to send it.
WritePumpRecvNoOk(p) ==
    /\ pst[p] = "select"
    /\ send[p] # <<>> \/ closed[p]
    /\ message' = [message EXCEPT ![p] = IF send[p] # <<>> THEN Head(send[p]) ELSE ZeroMsg]
    /\ backlog' = [backlog EXCEPT ![p] = send[p]]
    /\ send' = [send EXCEPT ![p] = IF @ # <<>> THEN Tail(@) ELSE @]
    /\ pst' = [pst EXCEPT ![p] = "write"]
    /\ UNCHANGED <<devVars, prodVars, histVars, hubVars, closed, conn, cur, n, wire,
                   closeSent, counted, now,
                   logVars>>

\* A writePump that is told of the closing apart from the queue and takes the
\* !ok branch as soon as the queue is closed, with messages still buffered.
WritePumpRecvClosedFirst(p) ==
    /\ pst[p] = "select"
    /\ \/ /\ send[p] # <<>>
          /\ ~closed[p]
          /\ message' = [message EXCEPT ![p] = Head(send[p])]
          /\ send' = [send EXCEPT ![p] = Tail(@)]
          /\ backlog' = [backlog EXCEPT ![p] = send[p]]
          /\ pst' = [pst EXCEPT ![p] = "write"]
       \/ /\ closed[p]
          /\ pst' = [pst EXCEPT ![p] = "closeMsg"]
          /\ UNCHANGED <<message, send, backlog>>
    /\ UNCHANGED <<devVars, prodVars, histVars, hubVars, closed, conn, cur, n, wire,
                   closeSent, counted, now, logVars>>

\* case message, ok := <-c.send: a buffered message, or !ok once the channel is
\* closed and empty. (A failing SetWriteDeadline is only logged here.)
WritePumpRecv(p) ==
    /\ pst[p] = "select"
    /\ \/ /\ send[p] # <<>>
          /\ message' = [message EXCEPT ![p] = Head(send[p])]
          /\ send' = [send EXCEPT ![p] = Tail(@)]
          /\ backlog' = [backlog EXCEPT ![p] = send[p]]
          /\ pst' = [pst EXCEPT ![p] = "write"]
       \/ /\ send[p] = <<>>
          /\ closed[p]
          /\ pst' = [pst EXCEPT ![p] = "closeMsg"]
          /\ UNCHANGED <<message, send, backlog>>
    /\ UNCHANGED <<devVars, prodVars, histVars, hubVars, closed, conn, cur, n, wire,
                   closeSent, counted, now,
                   logVars>>

\* The hub closed the channel: WriteMessage(CloseMessage), whose failure is only
\* logged, then return.
WritePumpCloseMsg(p) ==
    /\ pst[p] = "closeMsg"
    /\ closeSent' = [closeSent EXCEPT ![p] = TRUE]
    /\ pst' = [pst EXCEPT ![p] = "exit"]
    /\ UNCHANGED <<devVars, prodVars, histVars, hubVars, send, closed, conn, message,
                   cur, n, wire, backlog, counted, now,
                   logVars>>

\* sendMessage: NextWriter and the write of the received message; on an error
\* writePump logs it and returns.
SendMessageFirst(p, ok) ==
    /\ pst[p] = "write"
    /\ IF ok
       THEN /\ cur' = [cur EXCEPT ![p] = <<message[p]>>]
            /\ pst' = [pst EXCEPT ![p] = "count"]
            /\ UNCHANGED backlog
       ELSE /\ cur' = [cur EXCEPT ![p] = <<>>]
            /\ pst' = [pst EXCEPT ![p] = "exit"]
            /\ backlog' = [backlog EXCEPT ![p] = <<>>]
    /\ message' = [message EXCEPT ![p] = ZeroMsg]
    /\ unsent' = [unsent EXCEPT ![p] = Rest(@)]
    /\ UNCHANGED <<devVars, prodVars, histVars, hubVars, send, closed, conn, n, wire,
                   closeSent, counted, now,
                   ticks, closes>>

\* sendMessage without the drain loop: n is 0 whatever is queued.
SendMessageCountNone(p) ==
    /\ pst[p] = "count"
    /\ n' = [n EXCEPT ![p] = 0]
    /\ counted' = [counted EXCEPT ![p] = send[p]]
    /\ pst' = [pst EXCEPT ![p] = "drain"]
    /\ UNCHANGED <<devVars, prodVars, histVars, hubVars, send, closed, conn, message,
                   cur, wire, closeSent, backlog, now,
                   logVars>>

\* sendMessage whose loop runs once too often: for i := 0; i <= n; i++.
SendMessageCountOneMore(p) ==
    /\ pst[p] = "count"
    /\ n' = [n EXCEPT ![p] = Len(send[p]) + 1]
    /\ counted' = [counted EXCEPT ![p] = send[p]]
    /\ pst' = [pst EXCEPT ![p] = "drain"]
    /\ UNCHANGED <<devVars, prodVars, histVars, hubVars, send, closed, conn, message,
                   cur, wire, closeSent, backlog, now, logVars>>

\* n := len(c.send)
SendMessageCount(p) ==
    /\ pst[p] = "count"
    /\ n' = [n EXCEPT ![p] = Len(send[p])]
    /\ counted' = [counted EXCEPT ![p] = send[p]]
    /\ pst' = [pst EXCEPT ![p] = "drain"]
    /\ UNCHANGED <<devVars, prodVars, histVars, hubVars, send, closed, conn, message,
                   cur, wire, closeSent, backlog, now,
                   logVars>>

\* A drain loop that writes the first message again for each queued one:
\* w.Write(message) with the value of <-c.send thrown away.
SendMessageDrainRepeat(p, ok) ==
    /\ pst[p] = "drain"
    /\ n[p] > 0
    /\ send[p] # <<>> \/ closed[p]
    /\ send' = [send EXCEPT ![p] = IF @ # <<>> THEN Tail(@) ELSE @]
    /\ IF ok
       THEN /\ cur' = [cur EXCEPT ![p] = Append(@, Head(@))]
            /\ n' = [n EXCEPT ![p] = @ - 1]
            /\ UNCHANGED <<pst, backlog, counted>>
       ELSE /\ cur' = [cur EXCEPT ![p] = <<>>]
            /\ n' = [n EXCEPT ![p] = 0]
            /\ pst' = [pst EXCEPT ![p] = "exit"]
            /\ backlog' = [backlog EXCEPT ![p] = <<>>]
            /\ counted' = [counted EXCEPT ![p] = <<>>]
    /\ unsent' = [unsent EXCEPT ![p] = Rest(@)]
    /\ UNCHANGED <<devVars, prodVars, histVars, hubVars, closed, conn, message, wire,
                   closeSent, now, ticks, closes>>

\* One iteration of the drain loop: w.Write(<-c.send). The receive blocks on an
\* empty open channel and yields the zero value on an empty closed one.
SendMessageDrain(p, ok) ==
    /\ pst[p] = "drain"
    /\ n[p] > 0
    /\ send[p] # <<>> \/ closed[p]
    /\ LET m == IF send[p] # <<>> THEN Head(send[p]) ELSE ZeroMsg
       IN  /\ send' = [send EXCEPT ![p] = IF @ # <<>> THEN Tail(@) ELSE @]
           /\ IF ok
              THEN /\ cur' = [cur EXCEPT ![p] = Append(@, m)]
                   /\ n' = [n EXCEPT ![p] = @ - 1]
                   /\ UNCHANGED <<pst, backlog, counted>>
              ELSE /\ cur' = [cur EXCEPT ![p] = <<>>]
                   /\ n' = [n EXCEPT ![p] = 0]
                   /\ pst' = [pst EXCEPT ![p] = "exit"]
                   /\ backlog' = [backlog EXCEPT ![p] = <<>>]
                   /\ counted' = [counted EXCEPT ![p] = <<>>]
    /\ unsent' = [unsent EXCEPT ![p] = Rest(@)]
    /\ UNCHANGED <<devVars, prodVars, histVars, hubVars, closed, conn, message, wire,
                   closeSent, now,
                   ticks, closes>>

\* w.Close(): the websocket message is complete and flushed, or the writer fails.
SendMessageClose(p, ok) ==
    /\ pst[p] = "drain"
    /\ n[p] = 0
    /\ IF ok
       THEN /\ wire' = [wire EXCEPT ![p] = cur[p]]
            /\ pst' = [pst EXCEPT ![p] = "flushed"]
       ELSE /\ pst' = [pst EXCEPT ![p] = "exit"]
            /\ UNCHANGED wire
    /\ cur' = [cur EXCEPT ![p] = <<>>]
    /\ backlog' = [backlog EXCEPT ![p] = <<>>]
    /\ counted' = [counted EXCEPT ![p] = <<>>]
    /\ UNCHANGED <<devVars, prodVars, histVars, hubVars, send, closed, conn, message,
                   n, closeSent, now,
                   logVars>>

\* sendMessage returned without an error: writePump loops back to its select.
WritePumpLoop(p) ==
    /\ pst[p] = "flushed"
    /\ pst' = [pst EXCEPT ![p] = "select"]
    /\ wire' = [wire EXCEPT ![p] = <<>>]
    /\ UNCHANGED <<devVars, prodVars, histVars, hubVars, send, closed, conn, message,
                   cur, n, closeSent, backlog, counted, now,
                   logVars>>

\* A writePump that reports a failed ping with log.Fatal: the process exits,
\* which ends every pump and closes every connection.
WritePumpPingFatal(p, ok) ==
    /\ pst[p] = "select"
    /\ IF ok
       THEN UNCHANGED <<pst, conn>>
       ELSE /\ pst' = [q \in Pumps |-> "done"]
            /\ conn' = [q \in Pumps |-> IF conn[q] = "none" THEN "none" ELSE "closed"]
    /\ ticks' = [ticks EXCEPT ![p] = IF ok /\ @ < MissedPings THEN @ + 1 ELSE @]
    /\ UNCHANGED <<devVars, prodVars, histVars, hubVars, send, closed, message,
                   cur, n, wire, closeSent, backlog, counted, now,
                   unsent, closes>>

\* case <-ticker.C: SetWriteDeadline and WriteMessage(PingMessage); on an error
\* writePump returns.
WritePumpPing(p, ok) ==
    /\ pst[p] = "select"
    /\ pst' = [pst EXCEPT ![p] = IF ok THEN "select" ELSE "exit"]
    /\ ticks' = [ticks EXCEPT ![p] = IF ok /\ @ < MissedPings THEN @ + 1 ELSE @]
    /\ UNCHANGED <<devVars, prodVars, histVars, hubVars, send, closed, conn, message,
                   cur, n, wire, closeSent, backlog, counted, now,
                   unsent, closes>>

\* The deferred function of writePump: ticker.Stop() and c.conn.Close().
WritePumpExit(p) ==
    /\ pst[p] = "exit"
    /\ conn' = [conn EXCEPT ![p] = "closed"]
    /\ pst' = [pst EXCEPT ![p] = "done"]
    /\ UNCHANGED <<devVars, prodVars, histVars, hubVars, send, closed, message, cur,
                   n, wire, closeSent, backlog, counted, now,
                   logVars>>

\* --------------------------------------------------------------- behaviours
\* The state after MakeWS2811(opt, hub) for some opt of opts: no viewer has
\* connected and the producer has called nothing.
InitWith(opts) ==
    /\ \E opt \in opts : MakeWS2811(opt)
    /\ pc = "idle"
    /\ wakeAt = ZeroTime
    /\ args = NoArgs
    /\ json = ZeroMsg
    /\ lastOp = "none"
    /\ lastErr = Nil
    /\ now = 0
    /\ initCalls = 0
    /\ renders = 0
    /\ handoffAt = ZeroTime
    /\ clients = {}
    /\ hubMsg = ZeroMsg
    /\ hubTodo = {}
    /\ dropped = {}
    /\ hubDown = FALSE
    /\ pst = [p \in Pumps |-> "new"]
    /\ send = [p \in Pumps |-> <<>>]
    /\ closed = [p \in Pumps |-> FALSE]
    /\ conn = [p \in Pumps |-> "none"]
    /\ message = [p \in Pumps |-> ZeroMsg]
    /\ cur = [p \in Pumps |-> <<>>]
    /\ n = [p \in Pumps |-> 0]
    /\ wire = [p \in Pumps |-> <<>>]
    /\ closeSent = [p \in Pumps |-> FALSE]
    /\ backlog = [p \in Pumps |-> <<>>]
    /\ counted = [p \in Pumps |-> <<>>]
    /\ unsent = [p \in Pumps |-> <<>>]
    /\ ticks = [p \in Pumps |-> 0]
    /\ closes = [p \in Pumps |-> 0]

Render ==
    \/ RenderCall
    \/ RenderMarshal
    \/ RenderReturn

HubLoop ==
    \/ \E p \in Pumps : HubRegister(p)
    \/ \E p \in Pumps : HubUnregister(p)
    \/ HubBroadcast
    \/ \E p \in Pumps : HubDeliver(p)

\* writePump. Of the ticker's case the failing ping is followed here; the ones
\* that succeed change nothing but the count of ticks, which HeartbeatSpec follows.
Writer(p) ==
    \/ WritePumpStart(p)
    \/ WritePumpRecv(p)
    \/ WritePumpCloseMsg(p)
    \/ \E ok \in BOOLEAN : SendMessageFirst(p, ok)
    \/ SendMessageCount(p)
    \/ \E ok \in BOOLEAN : SendMessageDrain(p, ok)
    \/ \E ok \in BOOLEAN : SendMessageClose(p, ok)
    \/ WritePumpLoop(p)
    \/ WritePumpPing(p, FALSE)
    \/ WritePumpExit(p)

\* The device alone: a producer that uses the whole API with every option of
\* Options, a running clock, and a hub no viewer has connected to.
DeviceInit == InitWith(Options)

DeviceNext ==
    \/ WS2811Init
    \/ Fini
    \/ \E c \in 0 .. RpiPwmChannels - 1, v \in LedSlices : SetLedsSyncCall(c, v)
    \/ SetLedsSyncReturn
    \/ Render
    \/ Tick
    \/ HubBroadcast

DeviceSpec == DeviceInit /\ [][DeviceNext]_vars

\* The broadcaster: viewers connect, the hub registers, unregisters and fans
\* out, every writePump runs, and the producer renders one-LED frames at
\* TargetFreq, whose frame time is below one tick of the model's clock.
Init == InitWith({[Frequency |-> TargetFreq, Channels |-> <<[LedCount |-> 1]>>]})

Next ==
    \/ leds = <<>> /\ WS2811Init
    \/ renders = 1 /\ Leds(0) = <<0>> /\ SetLedsSyncCall(0, <<1>>)
    \/ SetLedsSyncReturn
    \/ Render
    \/ HubLoop
    \/ \E p \in Pumps : \E up \in BOOLEAN : ServeWs(p, up)
    \/ \E p \in Pumps : Writer(p)

Spec == Init /\ [][Next]_vars

\* The steps a running writePump takes by itself: it receives when c.send is
\* ready, and each write ends, with or without an error, within writeWait.
\* (The ticker's case is left out: nothing obliges a ping to fail.)
WriterStep(p) ==
    \/ WritePumpStart(p)
    \/ WritePumpRecv(p)
    \/ WritePumpCloseMsg(p)
    \/ \E ok \in BOOLEAN : SendMessageFirst(p, ok)
    \/ SendMessageCount(p)
    \/ \E ok \in BOOLEAN : SendMessageDrain(p, ok)
    \/ \E ok \in BOOLEAN : SendMessageClose(p, ok)
    \/ WritePumpLoop(p)
    \/ WritePumpExit(p)

\* The broadcaster with a producer that only renders.
RenderNext ==
    \/ leds = <<>> /\ WS2811Init
    \/ Render
    \/ HubLoop
    \/ \E p \in Pumps : \E up \in BOOLEAN : ServeWs(p, up)
    \/ \E p \in Pumps : Writer(p)

\* Every writePump goroutine keeps running.
WriterSpec == Init /\ [][RenderNext]_vars /\ \A p \in Pumps : WF_vars(WriterStep(p))

\* The producer, once in Render, and the hub's coordination loop keep running;
\* nothing is assumed of the writePumps.
HubSpec ==
    /\ Init
    /\ [][RenderNext]_vars
    /\ WF_vars(RenderMarshal)
    /\ WF_vars(RenderReturn)
    /\ WF_vars(HubBroadcast)
    /\ \A p \in Pumps : WF_vars(HubDeliver(p))

\* The heartbeat of a pump whose peer takes every ping: each ping that succeeds
\* is one more pingPeriod gone by. Nothing in the program reads from the
\* connection, so whether the peer answers with a pong makes no difference.
HeartbeatNext ==
    \/ RenderNext
    \/ \E p \in Pumps : WritePumpPing(p, TRUE)

HeartbeatSpec == Init /\ [][HeartbeatNext]_vars

\* The broadcaster with a hub that may shut down: every viewer's handshake
\* succeeds, the producer only renders, and the hub closes queues on overflow,
\* on its shutdown and on an Unregister, which is followed for one of the
\* pumps, the pumps being alike.
ShutdownNext ==
    \/ leds = <<>> /\ WS2811Init
    \/ Render
    \/ \E p \in Pumps : HubRegister(p)
    \/ HubUnregister(1)
    \/ HubBroadcast
    \/ \E p \in Pumps : HubDeliver(p)
    \/ HubShutdown
    \/ \E p \in Pumps : ServeWs(p, TRUE)
    \/ \E p \in Pumps : WriterStep(p)

\* Every writePump goroutine keeps running, whatever the hub does.

ShutdownSpec ==
    Init /\ [][ShutdownNext]_vars /\ \A p \in Pumps : WF_vars(WriterStep(p))

\* The producer on the clock, with viewers: one-LED frames at the frequencies
\* of Freqs, writes of either colour between the frames, and a hub that
\* registers the viewers and fans the frames out to their queues.
SyncInit == InitWith({ [Frequency |-> f, Channels |-> <<[LedCount |-> 1]>>] : f \in Freqs })

SyncNext ==
    \/ leds = <<>> /\ WS2811Init
    \/ \E v \in Vals : SetLedsSyncCall(0, <<v>>)
    \/ SetLedsSyncReturn
    \/ Render
    \/ Tick
    \/ \E p \in Pumps : ServeWs(p, TRUE)
    \/ \E p \in Pumps : HubRegister(p)
    \/ HubBroadcast
    \/ \E p \in Pumps : HubDeliver(p)

SyncSpec == SyncInit /\ [][SyncNext]_vars

\* ------------------------------------------------------------------ claims
\* The step in which SetLedsSync returns, and the call's arguments.
SetLedsSyncReturns == pc = "setSleep" /\ pc' = "idle"
TooLong == Len(args.leds) > Len(Leds(args.channel))

\* C1: every Init after the first one on a device (with no Fini in between)
\* returns the "already initialized" error.
C1_SecondInitFails ==
    (lastOp = "Init" /\ initCalls >= 2) => lastErr = ErrAlreadyInitialized

\* C2: a SetLedsSync with more values than the channel has LEDs returns the
\* "too many LEDs" error and leaves every slot of every channel as it was.
C2_TooManyLedsRejected ==
    [][(SetLedsSyncReturns /\ TooLong) =>
          (lastErr' = ErrTooManyLeds /\ leds' = leds)]_vars

\* A rejected write on a frame buffer that holds a non-zero colour.
C2_Witness ==
    /\ lastOp = "SetLedsSync"
    /\ lastErr = ErrTooManyLeds
    /\ \E c \in 1 .. Len(leds) : \E i \in 1 .. Len(leds[c]) : leds[c][i] # 0

\* C3: a SetLedsSync with at most as many values as the channel has LEDs
\* succeeds; Leds of that channel then holds the values in its first slots and
\* the prior colours in the others, at the same length, and no other channel
\* changes.
C3_WriteWithinCapacity ==
    [][(SetLedsSyncReturns /\ ~TooLong) =>
          /\ lastErr' = Nil
          /\ Len(leds') = Len(leds)
          /\ Len(leds'[args.channel + 1]) = Len(Leds(args.channel))
          /\ \A i \in 1 .. Len(Leds(args.channel)) :
                leds'[args.channel + 1][i] =
                    IF i <= Len(args.leds) THEN args.leds[i] ELSE Leds(args.channel)[i]
          /\ \A c \in 0 .. Len(leds) - 1 : c # args.channel => Leds(c)' = Leds(c)]_vars

\* A successful one-value write left the second slot of a channel lit.
C3_Witness ==
    /\ lastOp = "SetLedsSync"
    /\ lastErr = Nil
    /\ \E c \in 1 .. Len(leds) : Len(leds[c]) >= 2 /\ leds[c][1] = 0 /\ leds[c][2] = 1

\* The minimum interval (8 * 3 * LedCount + 0.05) / Frequency seconds, compared
\* exactly: d ticks reach it within the resolution of the clock when d + 1
\* ticks exceed it.
ReachesMinInterval(d) ==
    (d + 1) * 100 * options.Frequency >
        (100 * 8 * 3 * options.Channels[1].LedCount + 5) * Second

\* C4: a Wait does not return before lastRender plus the minimum interval, two
\* consecutive hand-offs to the hub are at least the minimum interval apart,
\* and the Wait of the first Render does not sleep.
C4_Pacing ==
    [][/\ (pc \in {"renderSleep", "setSleep"} /\ pc' # pc /\ renders >= 1) =>
              ReachesMinInterval(now - lastRender)
       /\ (pc = "renderSend" /\ pc' = "renderSent" /\ renders >= 1) =>
              ReachesMinInterval(now - handoffAt)
       /\ (pc = "idle" /\ pc' = "renderSleep" /\ renders = 0) =>
              wakeAt' <= now]_vars

\* The second frame is handed over exactly one frame time after the first
\* Render recorded lastRender.
C4_Witness ==
    /\ renders = 2
    /\ pc = "renderSent"
    /\ WaitTime(options) > 0
    /\ handoffAt = lastRender + WaitTime(options)

\* The step in which the hub's broadcast loop visits pump p, and whether p's
\* queue has a free slot then.
Delivers(p) == p \in hubTodo /\ p \notin hubTodo'
HasRoom(p) == Len(send[p]) < SendCap
\* The frames of a queue are in the order in which Render handed them over.
InOrder(q) == \A i \in 1 .. Len(q) - 1 : q[i].id < q[i + 1].id
IsPrefix(a, b) == Len(a) <= Len(b) /\ SubSeq(b, 1, Len(a)) = a
Last(q) == q[Len(q)]

\* C5: a broadcast appends exactly one copy of the frame Render handed over
\* to the queue of each registered pump that has a free slot; every queue
\* holds its frames in hand-over order, and the copies of one frame in
\* different queues are equal.
C5_FanOut ==
    [][\A p \in Pumps :
          /\ (Delivers(p) /\ HasRoom(p)) =>
                /\ p \in clients
                /\ hubMsg.id = renders
                /\ send'[p] = Append(send[p], hubMsg)
          /\ InOrder(send'[p])
          /\ \A q \in Pumps : \A i \in 1 .. Len(send'[p]) : \A j \in 1 .. Len(send'[q]) :
                send'[p][i].id = send'[q][j].id => send'[p][i] = send'[q][j]]_vars

\* Both pumps hold the same two frames, which differ in their LEDs.
C5_Witness ==
    /\ send[1] = send[2]
    /\ Len(send[1]) = 2
    /\ send[1][1].leds # send[1][2].leds

\* C6: a broadcast that finds a registered pump's queue full removes the pump
\* from the registry and closes its queue without enqueuing the frame, and
\* the pump's connection is closed afterwards: a dropped pump stays dropped
\* and a closed connection stays closed, so in the end the connection of
\* every dropped pump is closed for good.
C6_Overflow ==
    /\ [][\A p \in Pumps :
             (Delivers(p) /\ ~HasRoom(p)) =>
                 /\ p \notin clients'
                 /\ closed'[p]
                 /\ p \in dropped'
                 /\ send'[p] = send[p]]_vars
    /\ <>[](\A p \in dropped : conn[p] = "closed")

\* A pump dropped on a full queue has written its backlog and the close
\* message, and has closed its connection.
C6_Witness ==
    \E p \in Pumps :
        /\ p \in dropped
        /\ p \notin clients
        /\ conn[p] = "closed"
        /\ closeSent[p]
        /\ send[p] = <<>>

\* The step in which sendMessage's w.Close() completes a websocket message.
Flushes(p) == pst[p] = "drain" /\ pst'[p] = "flushed"

\* C7: the websocket message a pump completes starts with all the messages
\* that were queued when writePump received the first of them, in queue order,
\* and consists of that first message followed by exactly the messages queued
\* when n := len(c.send) was taken; later ones stay queued for a later message.
C7_Coalescing ==
    [][\A p \in Pumps :
          /\ (pst[p] = "select" /\ pst'[p] = "write") => backlog'[p] = send[p]
          /\ (pst[p] = "count" /\ pst'[p] = "drain") => counted'[p] = send[p]
          /\ Flushes(p) =>
                /\ IsPrefix(backlog[p], wire'[p])
                /\ wire'[p] = <<Head(backlog[p])>> \o counted[p]
                /\ \A i \in 1 .. Len(send'[p]) : send'[p][i].id > Last(wire'[p]).id]_vars

\* A pump flushed one websocket message of all the frames rendered but the
\* last, which waits in its queue.
C7_Witness ==
    \E p \in Pumps :
        /\ pst[p] = "flushed"
        /\ Len(wire[p]) = SendCap
        /\ send[p] # <<>>

\* C8: once a pump's queue is closed (by Unregister, or on overflow) the pump
\* is out of the registry for good and nothing is enqueued to it, while each
\* broadcast still visits every registered pump and enqueues the frame where
\* there is room.
C8_UnregisteredGetsNothing ==
    [][\A p \in Pumps :
          /\ closed[p] =>
                /\ p \notin clients /\ p \notin clients'
                /\ p \notin hubTodo /\ p \notin hubTodo'
                /\ send'[p] = send[p] \/ send'[p] = Tail(send[p])
          /\ (renders' = renders + 1) => hubTodo' = clients
          /\ (p \in clients /\ closed'[p] /\ HubIdle) => p \notin clients'
          /\ (Delivers(p) /\ HasRoom(p)) =>
                send'[p] # <<>> /\ Last(send'[p]) = hubMsg]_vars

\* Pump 2 was unregistered after an earlier frame; pump 1, still registered,
\* got a later one.
C8_Witness ==
    /\ closed[2] /\ 2 \notin dropped /\ 2 \notin clients
    /\ 1 \in clients
    /\ send[1] # <<>> /\ send[2] # <<>>
    /\ Last(send[1]).id > Last(send[2]).id

\* C9: every Render that was called hands its frame over and returns, and
\* every broadcast loop of the hub ends, whatever the pumps do.
C9_NeverBlocks ==
    /\ (pc \in {"renderSleep", "renderSend", "renderSent"}) ~> (pc = "idle")
    /\ (hubTodo # {}) ~> (hubTodo = {})

\* Render returned after a broadcast that met a full queue whose writePump
\* had already ended.
C9_Witness ==
    \E p \in Pumps :
        /\ p \in dropped
        /\ pst[p] = "done"
        /\ ~closeSent[p]
        /\ Len(send[p]) = SendCap
        /\ renders = MaxRenders
        /\ pc = "idle"
        /\ lastOp = "Render"

\* The steps in which pump p fails or ends: a failed write or ping, a full
\* queue met by a broadcast, the close message, the closing of the connection.
Fails(p) ==
    \/ pst[p] \notin {"exit", "done"} /\ pst'[p] \in {"exit", "done"}
    \/ Delivers(p) /\ ~HasRoom(p)
    \/ pst[p] = "exit" /\ pst'[p] = "done"

\* C10: a step in which one pump fails or ends changes nothing of any other
\* pump (registry membership, queue, connection, position) and nothing of the
\* producer's call in progress; Render and SetLedsSync return no error here.
C10_FailureIsolation ==
    [][/\ \A p \in Pumps : Fails(p) =>
             /\ \A q \in Pumps \ {p} :
                   /\ (q \in clients') = (q \in clients)
                   /\ send'[q] = send[q]
                   /\ closed'[q] = closed[q]
                   /\ conn'[q] = conn[q]
                   /\ pst'[q] = pst[q]
             /\ pc' = pc
             /\ lastErr' = lastErr
       /\ lastOp' \in {"Render", "SetLedsSync"} => lastErr' = Nil]_vars

\* One pump ended on a failed write or ping; the other is registered, open
\* and has a frame queued; the last Render returned nil.
C10_Witness ==
    \E p \in Pumps : \E q \in Pumps \ {p} :
        /\ pst[p] = "done" /\ ~closed[p] /\ conn[p] = "closed"
        /\ q \in clients /\ conn[q] = "open" /\ send[q] # <<>>
        /\ lastOp = "Render" /\ lastErr = Nil

\* The step writes on pump p's connection or closes it: a data write or the
\* flush of a websocket message, a ping, the close message, conn.Close().
WritesTo(p) ==
    \/ cur'[p] # cur[p]
    \/ wire'[p] # wire[p]
    \/ ticks'[p] # ticks[p]
    \/ closeSent'[p] # closeSent[p]
    \/ conn[p] = "open" /\ conn'[p] # "open"
\* The positions of a running writePump.
InWritePump == {"select", "write", "count", "drain", "flushed", "closeMsg", "exit"}

\* C11: every write on a connection and its closing are steps of that pump's
\* writePump, of which each connection has one: no step of the hub, of the
\* producer, of the handshake handler or of another pump writes on it.
C11_SingleWriter ==
    [][\A p \in Pumps :
          WritesTo(p) =>
              /\ pst[p] \in InWritePump
              /\ hubVars' = hubVars
              /\ prodVars' = prodVars /\ devVars' = devVars
              /\ \A q \in Pumps \ {p} : pst'[q] = pst[q] /\ conn'[q] = conn[q]]_vars

\* One writePump is in the middle of a websocket message while the hub is in
\* a broadcast loop, Render has not returned and the other pump has ended.
C11_Witness ==
    \E p \in Pumps : \E q \in Pumps \ {p} :
        /\ pst[p] = "drain" /\ cur[p] # <<>>
        /\ hubTodo # {}
        /\ pc = "renderSent"
        /\ pst[q] = "done" /\ conn[q] = "closed"

\* C12: a pump whose writePump has returned after a failed write or ping, and
\* has closed the connection, is no longer in the hub's registry.
C12_ClosedPumpUnregistered ==
    \A p \in Pumps : (pst[p] = "done" /\ conn[p] = "closed") => p \notin clients

\* C13: a pump that has had no pong for pongWait is treated as failed: by the
\* time MissedPings ticker periods have gone by with no pong read, writePump
\* is returning or has returned, also when every write succeeded.
C13_LivenessDeadline ==
    \A p \in Pumps : ticks[p] >= MissedPings => pst[p] \in {"exit", "done"}

\* C14: a connection that writePump has closed was sent a close message first,
\* whatever took the pump out of its loop.
C14_CloseNotified ==
    \A p \in Pumps : conn[p] = "closed" => closeSent[p]

\* The step in which pump p hands one more message to its connection's writer.
WritesMessage(p) == Len(cur'[p]) = Len(cur[p]) + 1
\* What pump p has been handed and not written: the message writePump has
\* received for sendMessage, then the queue.
Outstanding(p) == (IF pst[p] = "write" THEN <<message[p]>> ELSE <<>>) \o send[p]

\* C15: each message a pump writes, in whichever websocket message, is the
\* oldest one enqueued to it that it has not written yet, so what it has
\* written so far is a prefix of what was enqueued, with nothing reordered,
\* repeated or left out; the enqueued messages no write was called with are
\* the one writePump holds for sendMessage and those in the queue, in
\* enqueue order.
C15_PerPumpOrder ==
    [][\A p \in Pumps :
          /\ WritesMessage(p) =>
                /\ unsent[p] # <<>>
                /\ Last(cur'[p]) = Head(unsent[p])
                /\ unsent'[p] = Tail(unsent[p])
          /\ Len(send'[p]) > Len(send[p]) => unsent'[p] = Append(unsent[p], hubMsg)
          /\ unsent'[p] = Outstanding(p)'
          /\ InOrder(unsent'[p])]_vars

\* A pump has flushed the second frame in a websocket message of its own and
\* the third one is the only message it has not written.
C15_Witness ==
    \E p \in Pumps :
        /\ pst[p] = "flushed"
        /\ Len(wire[p]) = 1 /\ wire[p][1].id = 2
        /\ Len(unsent[p]) = 1 /\ unsent[p][1].id = 3
        /\ wire[p][1].leds = <<1>>

\* C16: writePump takes the !ok branch only when the closed queue is empty and
\* every message enqueued to the pump has been written; a pump that ends with
\* messages unwritten ended on a failed write, without the close message; and
\* once the hub has closed a pump's queue (Unregister, overflow or shutdown),
\* its writePump ends and its connection is closed: a closed queue stays
\* closed and an ended pump stays ended, so in the end every pump with a
\* closed queue has ended with its connection closed.
C16_ClosedQueueEnds ==
    /\ [][\A p \in Pumps :
             /\ (pst[p] = "select" /\ pst'[p] = "closeMsg") =>
                   closed[p] /\ send[p] = <<>> /\ unsent[p] = <<>>
             /\ (pst'[p] = "done" /\ closed'[p] /\ unsent'[p] # <<>>) => ~closeSent'[p]]_vars
    /\ <>[](\A p \in Pumps : closed[p] => (pst[p] = "done" /\ conn[p] = "closed"))

\* The hub shut down after a frame was rendered; a pump that was registered
\* then has written all it was handed and the close message, and has closed
\* its connection.
C16_Witness ==
    \E p \in Pumps :
        /\ hubDown /\ p \in clients /\ closed[p]
        /\ pst[p] = "done" /\ conn[p] = "closed" /\ closeSent[p]
        /\ unsent[p] = <<>>
        /\ renders >= 1

\* A step of a SetLedsSync call: its Wait starts or ends.
SetLedsSyncStep ==
    \/ pc = "idle" /\ pc' = "setSleep"
    \/ pc = "setSleep" /\ pc' = "idle"

\* C17: SetLedsSync changes the frame buffer only after its Wait, so once a
\* Render has returned no slot changes before that Render's lastRender plus
\* the minimum interval; and no step of SetLedsSync changes a frame that
\* Render has handed to the hub, in the hub's hands or in a pump's queue.
C17_SyncWrite ==
    [][SetLedsSyncStep =>
          /\ leds' # leds => pc = "setSleep" /\ now >= wakeAt
          /\ (leds' # leds /\ renders >= 1) =>
                /\ now >= lastRender + WaitTime(options)
                /\ ReachesMinInterval(now - lastRender)
          /\ hubMsg' = hubMsg
          /\ send' = send]_vars

\* A write changed the LED one frame time after a Render returned, while that
\* Render's frame, with the former colour, is in a pump's queue.
C17_Witness ==
    /\ lastOp = "SetLedsSync" /\ lastErr = Nil
    /\ Leds(0) = <<1>>
    /\ WaitTime(options) > 0
    /\ now = lastRender + WaitTime(options)
    /\ \E p \in Pumps : send[p] # <<>> /\ Last(send[p]).id = renders /\ Last(send[p]).leds = <<0>>

\* C18: the hub closes a pump's queue only when it finds the pump in the
\* registry, and removes it in the same step, so an Unregister of an absent
\* pump changes nothing: no queue is closed twice, a closed queue stays
\* closed, its pump stays out of the registry and nothing more is enqueued
\* to it.
C18_UnregisterAbsentNoOp ==
    [][\A p \in Pumps :
          /\ closes'[p] <= 1
          /\ closed'[p] = (closes'[p] = 1)
          /\ closes'[p] # closes[p] => (p \in clients /\ p \notin clients')
          /\ closed[p] =>
                /\ closed'[p]
                /\ p \notin clients'
                /\ Len(send'[p]) <= Len(send[p])]_vars

\* Both queues were closed, once each: one on overflow and one by Unregister,
\* with every frame rendered and the hub between events.
C18_Witness ==
    \E p \in Pumps : \E q \in Pumps \ {p} :
        /\ p \in dropped /\ closes[p] = 1
        /\ q \notin dropped /\ closed[q] /\ closes[q] = 1
        /\ renders = MaxRenders
        /\ HubIdle

\* C19: once Init has allocated the frame buffer, channel 0 has as many slots
\* as its configured LedCount, whatever was written since, and the payload
\* Render marshals carries that many LEDs together with channel 0's options.
C19_FrameLength ==
    /\ leds # <<>> => Len(Leds(0)) = options.Channels[1].LedCount
    /\ json # ZeroMsg =>
          /\ json.option = options.Channels[1]
          /\ Len(json.leds) = json.option.LedCount

\* Render is handing over a frame of MaxLeds LEDs after a write of fewer
\* values: the first LED has the written colour and the last is still dark.
C19_Witness ==
    /\ pc = "renderSend"
    /\ lastOp = "SetLedsSync" /\ lastErr = Nil
    /\ Len(json.leds) = MaxLeds
    /\ json.leds[1] = 1 /\ json.leds[MaxLeds] = 0

\* C20: while sendMessage drains, the queue holds at least the n messages it
\* still has to receive, whatever the hub has enqueued or closed since n was
\* taken, so no receive of the loop blocks or yields the zero value of a
\* closed queue; all that writePump holds or has written are frames that
\* Render handed over.
C20_DrainNeverStarves ==
    \A p \in Pumps :
        /\ pst[p] = "drain" => n[p] <= Len(send[p])
        /\ pst[p] = "write" => message[p] # ZeroMsg
        /\ \A i \in 1 .. Len(cur[p]) : cur[p][i] # ZeroMsg /\ cur[p][i].id \in 1 .. renders

\* A drain has one receive to go while the queue, which the hub has added a
\* frame to and then closed, holds two.
C20_Witness ==
    \E p \in Pumps :
        /\ pst[p] = "drain"
        /\ n[p] = 1 /\ Len(send[p]) = 2
        /\ closed[p]
        /\ cur[p] # <<>>

====
